---- MODULE Spec2Model ----
(***************************************************************************)
(* Model of the odysseus music library: the playlist Store of src/lib.rs   *)
(* (load, save, queries, mutation, card id allocation, save on drop) and   *)
(* the `init` subcommand of src/cli.rs, over one library root on disk.     *)
(*                                                                         *)
(* Option<T> is modelled as a sequence: <<>> is None, <<x>> is Some(x).    *)
(* A file is modelled the same way: <<>> is "no such file", <<c>> is a     *)
(* file with content c.                                                    *)
(***************************************************************************)
EXTENDS Integers, Sequences, FiniteSets, TLC

\* ------------------------------------------------------------------ bounds
MaxPlaylists == 2     \* longest playlists list of a primary document in Init
MaxCardId == 2        \* largest card id in a document or passed by a caller
MaxTrack == 0         \* largest track index passed to set_position

Names == {"Jazz", "Rock"}
Urls == {"http://radio"}
Root == "/music"
Tracks == <<"a.flac", "b.flac", "c.flac">>

VARIABLES
    rootDir,        \* BOOLEAN: the library root directory exists
    filesDir,       \* Option: <<>> no files/ directory, <<d>> with d[name] an
                    \* Option of the entry names of files/<name>/
    hexToml,        \* BOOLEAN: <root>/Hex.toml exists
    musicToml,      \* file <root>/Music.toml (Option of a document)
    positionsToml,  \* file <root>/Positions.toml (Option of a list of pairs)
    store,          \* the in-memory Store of the running process, if any
    last            \* the last operation: its name, arguments and outcome

vars == <<rootDir, filesDir, hexToml, musicToml, positionsToml, store, last>>
disk == <<rootDir, filesDir, hexToml, musicToml, positionsToml>>

\* ------------------------------------------------------------- sequences
Range(s) == {s[i] : i \in 1..Len(s)}

Min(S) == CHOOSE x \in S : \A y \in S : x <= y

SeqsUpTo(S, n) == UNION {[1..k -> S] : k \in 0..n}

\* iterator.filter(..).next(): Option of the first of the indices `hits` of
\* the elements that pass the filter
First(hits) == IF hits = {} THEN <<>> ELSE <<Min(hits)>>

\* slice.sort() on u32
Sort(s) == SortSeq(s, LAMBDA a, b : a < b)

\* ------------------------------------------------------------- documents
\* A [[playlists]] table of Music.toml: every key is present (<<v>>) or not.
Tables ==
    [name : {<<n>> : n \in Names},
     card_id : {<<>>} \cup {<<c>> : c \in 0..MaxCardId},
     allow_random : {<<>>, <<TRUE>>, <<FALSE>>},
     radio_url : {<<>>} \cup {<<u>> : u \in Urls},
     other : {<<>>, <<"x">>}]

\* The text of an empty file: a valid document without the `playlists` key.
EmptyDoc == [valid |-> TRUE, playlists |-> <<>>]

\* Text that is not a document of the Store schema.
BadDoc == [valid |-> FALSE, playlists |-> <<>>]

\* serde: #[serde(default)] on card_id, allow_random, radio_url;
\* #[serde(skip)] on files and position; unknown keys are ignored.
Deserialize(t) ==
    [name |-> t.name[1],
     card_id |-> t.card_id,
     allow_random |-> IF t.allow_random = <<>> THEN FALSE ELSE t.allow_random[1],
     radio_url |-> t.radio_url,
     files |-> <<>>,
     position |-> <<>>]

\* toml::from_str::<Store>: #[serde(default)] on playlists
FromStr(doc) ==
    IF doc.playlists = <<>> THEN <<>>
    ELSE [i \in 1..Len(doc.playlists[1]) |-> Deserialize(doc.playlists[1][i])]

SerializeNoUrl(p) ==
    [name |-> <<p.name>>,
     card_id |-> p.card_id,
     allow_random |-> <<p.allow_random>>,
     radio_url |-> <<>>,
     other |-> <<>>]

\* serde Serialize of a Playlist: a None is left out, files and position skipped
Serialize(p) ==
    [name |-> <<p.name>>,
     card_id |-> p.card_id,
     allow_random |-> <<p.allow_random>>,
     radio_url |-> p.radio_url,
     other |-> <<>>]

\* toml::to_string(&self) of the Store
TomlToString(pls) ==
    [valid |-> TRUE, playlists |-> <<[i \in 1..Len(pls) |-> Serialize(pls[i])]>>]

\* filter_map(|x| x.position.map(|a| (x.name.clone(), a))).collect()
Positions(pls) ==
    LET held == SelectSeq(pls, LAMBDA p : p.position # <<>>)
    IN [i \in 1..Len(held) |-> <<held[i].name, held[i].position[1]>>]

\* ------------------------------------------------------------------ store
NoStore == [alive |-> FALSE, playlists |-> <<>>]

Loaded(pls) == [alive |-> TRUE, playlists |-> pls]

Op(op, name, id, ret, err, val) ==
    [op |-> op, name |-> name, id |-> id, ret |-> ret, err |-> err, val |-> val]

NotFound(key) == <<[kind |-> "PlaylistNotFound", key |-> key]>>

\* read_dir(root/files/<name>): Option of the entries' full paths
ReadDir(name) ==
    IF filesDir = <<>> \/ filesDir[1][name] = <<>> THEN <<>>
    ELSE LET es == filesDir[1][name][1]
         IN <<[i \in 1..Len(es) |-> <<Root, "files", name, es[i]>>]>>

ScanAlways(p) == ReadDir(p.name)

\* the loop body of from_path: Option of the files of one playlist
\* (<<>>: read_dir failed and unwrap() panics)
Scan(p) ==
    IF p.radio_url = <<>> THEN ReadDir(p.name) ELSE <<p.files>>

\* ------------------------------------------------------------------- save
\* Where save() can stop: "ok", or the `?` that returns the error.
SaveOutcomes ==
    {"ok", "create_music", "write_music", "positions_to_string",
     "create_positions", "write_positions"}

\* The error save() returns: File::create failures are mapped to ConfMissing,
\* the others are converted by `?`.
SaveError(o) ==
    IF o = "ok" THEN <<>>
    ELSE IF o \in {"create_music", "create_positions"}
    THEN <<[kind |-> "ConfMissing", key |-> <<Root>>]>>
    ELSE <<[kind |-> "Other", key |-> <<o>>]>>

\* save(&self) stopping at o. File::create truncates, so a failed write
\* leaves the file empty.
Save(pls, o) ==
    /\ o \in SaveOutcomes
    /\ o # "create_music" => rootDir
    /\ musicToml' =
         IF o = "create_music" THEN musicToml
         ELSE IF o = "write_music" THEN <<EmptyDoc>>
         ELSE <<TomlToString(pls)>>
    /\ positionsToml' =
         IF o = "ok" THEN <<Positions(pls)>>
         ELSE IF o = "write_positions" THEN << <<>> >>
         ELSE positionsToml
    /\ UNCHANGED <<rootDir, filesDir, hexToml>>

\* Store::save called by the owner of the Store
SaveStore ==
    /\ store.alive
    /\ \E o \in SaveOutcomes :
         /\ Save(store.playlists, o)
         /\ last' = Op("save", <<>>, <<>>, IF o = "ok" THEN "Ok" ELSE "Err",
                       SaveError(o), <<>>)
    /\ UNCHANGED store

DropNoSave ==
    /\ store.alive
    /\ store' = NoStore
    /\ last' = Op("drop", <<>>, <<>>, "Ok", <<>>, <<>>)
    /\ UNCHANGED disk

\* impl Drop for Store: the scope of the Store ends; last.err is what
\* eprintln! reports.
Drop ==
    /\ store.alive
    /\ \E o \in SaveOutcomes :
         /\ Save(store.playlists, o)
         /\ last' = Op("drop", <<>>, <<>>, "Ok", SaveError(o), <<>>)
    /\ store' = NoStore

\* ------------------------------------------------------------------- load
\* The playlists after the loop of from_path, as Option: <<>> when some
\* read_dir(...).unwrap() panics.
Resolve(pls) ==
    IF \E i \in 1..Len(pls) : Scan(pls[i]) = <<>> THEN <<>>
    ELSE <<[i \in 1..Len(pls) |-> [pls[i] EXCEPT !.files = Scan(pls[i])[1]]]>>

\* Store::from_path
Load ==
    /\ ~store.alive
    /\ \/ /\ musicToml = <<>>
          /\ last' = Op("load", <<>>, <<>>, "Err",
                        <<[kind |-> "ConfMissing", key |-> <<Root>>]>>, <<>>)
          /\ UNCHANGED <<store, disk>>
       \/ /\ musicToml # <<>>
          /\ ~musicToml[1].valid
          /\ last' = Op("load", <<>>, <<>>, "Err",
                        <<[kind |-> "Other", key |-> <<"from_str">>]>>, <<>>)
          /\ UNCHANGED <<store, disk>>
       \/ /\ musicToml # <<>>
          /\ musicToml[1].valid
          /\ LET pls == FromStr(musicToml[1])
             IN IF Resolve(pls) # <<>>
                THEN /\ store' = Loaded(Resolve(pls)[1])
                     /\ last' = Op("load", <<>>, <<>>, "Ok", <<>>, <<>>)
                     /\ UNCHANGED disk
                ELSE \* unwrap() panics; unwinding drops the parsed Store,
                     \* which saves it, unless the build aborts on panic
                     /\ store' = NoStore
                     /\ \/ /\ UNCHANGED disk
                           /\ last' = Op("load", <<>>, <<>>, "Panic", <<>>, <<>>)
                        \/ \E o \in SaveOutcomes :
                             /\ Save(pls, o)
                             /\ last' = Op("load", <<>>, <<>>, "Panic",
                                           SaveError(o), <<>>)

\* ---------------------------------------------------------------- cli init
\* main, ("init", PATH): last.val tells whether the workspace was created
InitCmd ==
    /\ ~store.alive
    /\ IF musicToml # <<>>
       THEN /\ last' = Op("init", <<>>, <<>>, "Ok", <<>>, <<"exists">>)
            /\ UNCHANGED disk
       ELSE /\ rootDir' = TRUE
            /\ filesDir' = IF filesDir = <<>> THEN <<[n \in Names |-> <<>>]>>
                           ELSE filesDir
            /\ hexToml' = TRUE
            /\ last' = Op("init", <<>>, <<>>, "Ok", <<>>, <<"created">>)
            /\ UNCHANGED <<musicToml, positionsToml>>
    /\ UNCHANGED store

\* ---------------------------------------------------------------- queries
\* filter(|x| x.card_id.is_none()).cloned().collect()
playlists_without_card(pls) == SelectSeq(pls, LAMBDA p : p.card_id = <<>>)

\* filter_map(|x| x.card_id).collect::<Vec<_>>()
CardIds(pls) ==
    LET held == SelectSeq(pls, LAMBDA p : p.card_id # <<>>)
    IN [i \in 1..Len(held) |-> held[i].card_id[1]]

next_card_id_max(pls) ==
    LET ids == Sort(CardIds(pls))
        gaps == {i \in 1..(Len(ids) - 1) : ids[i] + 1 # ids[i + 1]}
    IN IF gaps # {} THEN ids[Min(gaps)] + 1
       ELSE IF Len(ids) = 0 THEN 0
       ELSE ids[Len(ids)]

next_card_id_zero(pls) == 0

\* Store::next_card_id: windows(2) over the sorted ids, first pair with a gap
next_card_id(pls) ==
    LET ids == Sort(CardIds(pls))
        gaps == {i \in 1..(Len(ids) - 1) : ids[i] + 1 # ids[i + 1]}
    IN IF gaps # {} THEN ids[Min(gaps)] + 1
       ELSE IF Len(ids) = 0 THEN 0
       ELSE ids[Len(ids)] + 1

\* Store::playlist_by_name: Option of the index of the playlist referred to
playlist_by_name(pls, name) ==
    First({i \in 1..Len(pls) : pls[i].name = name})

playlist_by_card_last(pls, id) ==
    LET hits == {i \in 1..Len(pls) : pls[i].card_id = <<id>>}
    IN IF hits = {} THEN <<>> ELSE <<CHOOSE i \in hits : \A j \in hits : j <= i>>

\* Store::playlist_by_card: Option of the index of the playlist referred to
playlist_by_card(pls, id) ==
    First({i \in 1..Len(pls) : pls[i].card_id = <<id>>})

get_files_last(pls, name) ==
    LET hits == {i \in 1..Len(pls) : pls[i].name = name}
    IN IF hits = {} THEN <<>>
       ELSE pls[CHOOSE i \in hits : \A j \in hits : j <= i].files

\* Store::get_files
get_files(pls, name) ==
    LET i == First({k \in 1..Len(pls) : pls[k].name = name})
    IN IF i = <<>> THEN <<>> ELSE pls[i[1]].files

set_playlist_card_id_all(pls, name, id) ==
    [i \in 1..Len(pls) |->
        IF pls[i].name = name THEN [pls[i] EXCEPT !.card_id = <<id>>] ELSE pls[i]]

\* Store::set_playlist_card_id: the playlists afterwards
set_playlist_card_id(pls, name, id) ==
    LET i == playlist_by_name(pls, name)
    IN IF i = <<>> THEN pls ELSE [pls EXCEPT ![i[1]].card_id = <<id>>]

\* Store::set_position: the playlists afterwards
set_position(pls, name, pos) ==
    LET i == playlist_by_name(pls, name)
    IN IF i = <<>> THEN pls ELSE [pls EXCEPT ![i[1]].position = << <<pos, 0>> >>]

NextCardId ==
    /\ store.alive
    /\ last' = Op("next_card_id", <<>>, <<>>, "Ok", <<>>,
                  <<next_card_id(store.playlists)>>)
    /\ UNCHANGED <<store, disk>>

PlaylistsWithoutCard ==
    /\ store.alive
    /\ last' = Op("playlists_without_card", <<>>, <<>>, "Ok", <<>>,
                  <<playlists_without_card(store.playlists)>>)
    /\ UNCHANGED <<store, disk>>

PlaylistByName(name) ==
    /\ store.alive
    /\ LET i == playlist_by_name(store.playlists, name)
       IN last' = IF i = <<>>
                  THEN Op("playlist_by_name", <<name>>, <<>>, "Err",
                          NotFound(<<name>>), <<>>)
                  ELSE Op("playlist_by_name", <<name>>, <<>>, "Ok", <<>>, i)
    /\ UNCHANGED <<store, disk>>

\* last.name records the call this one follows: the name that the call just
\* before, a successful set_playlist_card_id(name, id), gave this id to.
PlaylistByCard(id) ==
    /\ store.alive
    /\ LET i == playlist_by_card(store.playlists, id)
           after == IF /\ last.op = "set_playlist_card_id"
                       /\ last.ret = "Ok"
                       /\ last.id = <<id>>
                    THEN last.name ELSE <<>>
       IN last' = IF i = <<>>
                  THEN Op("playlist_by_card", after, <<id>>, "Err",
                          NotFound(<<"card", id>>), <<>>)
                  ELSE Op("playlist_by_card", after, <<id>>, "Ok", <<>>, i)
    /\ UNCHANGED <<store, disk>>

GetFiles(name) ==
    /\ store.alive
    /\ last' = Op("get_files", <<name>>, <<>>, "Ok", <<>>,
                  <<get_files(store.playlists, name)>>)
    /\ UNCHANGED <<store, disk>>

\* -------------------------------------------------------------- mutation
SetPlaylistCardId(name, id) ==
    /\ store.alive
    /\ store' = [store EXCEPT !.playlists = set_playlist_card_id(@, name, id)]
    /\ last' = IF playlist_by_name(store.playlists, name) = <<>>
               THEN Op("set_playlist_card_id", <<name>>, <<id>>, "Err",
                       NotFound(<<name>>), <<>>)
               ELSE Op("set_playlist_card_id", <<name>>, <<id>>, "Ok", <<>>, <<>>)
    /\ UNCHANGED disk

SetPosition(name, pos) ==
    /\ store.alive
    /\ store' = [store EXCEPT !.playlists = set_position(@, name, pos)]
    /\ last' = IF playlist_by_name(store.playlists, name) = <<>>
               THEN Op("set_position", <<name>>, <<pos>>, "Err",
                       NotFound(<<name>>), <<>>)
               ELSE Op("set_position", <<name>>, <<pos>>, "Ok", <<>>, <<>>)
    /\ UNCHANGED disk

\* The allocation protocol of a caller: for the i-th playlist n, which has
\* no card, set_playlist_card_id(n.name, next_card_id()). last.val is i.
\* With two playlists of one name the protocol never runs out of playlists
\* without a card, so the model stops it past MaxCardId + 1.
Allocate(i) ==
    /\ store.alive
    /\ i \in 1..Len(store.playlists)
    /\ store.playlists[i].card_id = <<>>
    /\ next_card_id(store.playlists) <= MaxCardId + 1
    /\ LET name == store.playlists[i].name
           id == next_card_id(store.playlists)
       IN /\ store' = [store EXCEPT !.playlists = set_playlist_card_id(@, name, id)]
          /\ last' = Op("allocate", <<name>>, <<id>>, "Ok", <<>>, <<i>>)
    /\ UNCHANGED disk

\* --------------------------------------------------------- specifications
\* Directories under files/: both playlists' directories hold the tracks, or
\* the one of "Jazz" is missing.
DirsFull == [n \in Names |-> <<Tracks>>]
DirsNoJazz == [n \in Names |-> IF n = "Jazz" THEN <<>> ELSE <<Tracks>>]

\* Tables that set only name and card_id
IdTables ==
    {t \in Tables : t.allow_random = <<>> /\ t.radio_url = <<>> /\ t.other = <<>>}

Document(tables) == [valid |-> TRUE, playlists |-> <<tables>>]

\* A workspace whose Music.toml lists up to MaxPlaylists playlists with any
\* names and card ids (duplicates included: the loader checks neither).
Init ==
    /\ rootDir = TRUE
    /\ filesDir = <<DirsFull>>
    /\ hexToml = FALSE
    /\ \E tables \in SeqsUpTo(IdTables, MaxPlaylists) :
         musicToml = <<Document(tables)>>
    /\ positionsToml = <<>>
    /\ store = NoStore
    /\ last = Op("start", <<>>, <<>>, "Ok", <<>>, <<>>)

\* One process that loads the Store, looks playlists up and binds cards to
\* them in memory
Next ==
    \/ Load
    \/ NextCardId
    \/ PlaylistsWithoutCard
    \/ \E name \in Names : PlaylistByName(name)
    \/ \E id \in 0..MaxCardId : PlaylistByCard(id)
    \/ \E name \in Names : GetFiles(name)
    \/ \E name \in Names, id \in 0..MaxCardId : SetPlaylistCardId(name, id)
    \/ \E i \in 1..MaxPlaylists : Allocate(i)

Spec == Init /\ [][Next]_vars

\* Tables that differ in which keys they hold
DiskTables ==
    {[name |-> <<"Jazz">>, card_id |-> <<>>, allow_random |-> <<>>,
      radio_url |-> <<>>, other |-> <<>>],
     [name |-> <<"Jazz">>, card_id |-> <<0>>, allow_random |-> <<FALSE>>,
      radio_url |-> <<"http://radio">>, other |-> <<"x">>],
     [name |-> <<"Rock">>, card_id |-> <<>>, allow_random |-> <<TRUE>>,
      radio_url |-> <<>>, other |-> <<>>]}

\* No workspace at all, or a root directory with or without files/ and with
\* no, an unreadable, an empty or a populated Music.toml.
InitDisk ==
    /\ hexToml = FALSE
    /\ positionsToml = <<>>
    /\ store = NoStore
    /\ last = Op("start", <<>>, <<>>, "Ok", <<>>, <<>>)
    /\ \/ /\ rootDir = FALSE
          /\ filesDir = <<>>
          /\ musicToml = <<>>
       \/ /\ rootDir = TRUE
          /\ filesDir \in {<<>>, <<DirsFull>>, <<DirsNoJazz>>}
          /\ \/ musicToml \in {<<>>, <<BadDoc>>, <<EmptyDoc>>}
             \/ \E tables \in SeqsUpTo(DiskTables, MaxPlaylists) :
                  musicToml = <<Document(tables)>>

\* Processes that run one after the other on the same root: `init`, or a
\* Store that is loaded, changed, saved and dropped.
NextDisk ==
    \/ InitCmd
    \/ Load
    \/ SaveStore
    \/ Drop
    \/ \E name \in Names : GetFiles(name)
    \/ \E name \in Names : SetPlaylistCardId(name, MaxCardId)
    \/ \E name \in Names : SetPosition(name, MaxTrack)

SpecDisk == InitDisk /\ [][NextDisk]_vars

\* ----------------------------------------------------------------- claims
Held(pls) == {pls[i].card_id[1] : i \in {j \in 1..Len(pls) : pls[j].card_id # <<>>}}

DistinctCards(pls) ==
    \A i, j \in 1..Len(pls) :
        (i # j /\ pls[i].card_id # <<>>) => pls[i].card_id # pls[j].card_id

DistinctNames(pls) ==
    \A i, j \in 1..Len(pls) : i # j => pls[i].name # pls[j].name

RemoveAt(s, i) == SubSeq(s, 1, i - 1) \o SubSeq(s, i + 1, Len(s))

\* C1: in every Store state, next_card_id() returns the smallest unsigned
\* integer that is the card_id of no playlist.
C1_SmallestUnused ==
    last.op = "next_card_id" =>
        /\ last.val[1] \notin Held(store.playlists)
        /\ \A k \in 0..(last.val[1] - 1) : k \in Held(store.playlists)

\* C2: when the assigned card_ids are pairwise distinct, the id returned by
\* next_card_id() is the card_id of no playlist, and a second call on the
\* unchanged Store returns the same id.
C2_UnusedAndDeterministic ==
    (last.op = "next_card_id" /\ DistinctCards(store.playlists)) =>
        /\ \A i \in 1..Len(store.playlists) :
             store.playlists[i].card_id # <<last.val[1]>>
        /\ last.val[1] = next_card_id(store.playlists)

C2_Witness ==
    /\ last.op = "next_card_id"
    /\ DistinctCards(store.playlists)
    /\ Held(store.playlists) = {0, 2}
    /\ last.val = <<1>>

\* C3 as stated: a successful set_playlist_card_id(name, id) immediately
\* followed by playlist_by_card(id) returns the playlist named `name`.
C3_SetThenByCard ==
    (last.op = "playlist_by_card" /\ last.name # <<>>) =>
        /\ last.ret = "Ok"
        /\ store.playlists[last.val[1]].name = last.name[1]

\* C3 amended: the same, provided no playlist that precedes the first
\* playlist named `name` holds card_id id.
C3_SetThenByCardUnlessEarlier ==
    (/\ last.op = "playlist_by_card"
     /\ last.name # <<>>
     /\ \A j \in 1..Len(store.playlists) :
          (\A k \in 1..j : store.playlists[k].name # last.name[1])
              => store.playlists[j].card_id # last.id) =>
        /\ last.ret = "Ok"
        /\ store.playlists[last.val[1]].name = last.name[1]

C3_Witness ==
    /\ last.op = "playlist_by_card"
    /\ last.name = <<"Jazz">>
    /\ last.ret = "Ok"
    /\ Len(store.playlists) = 2
    /\ store.playlists[1].name = "Jazz"
    /\ store.playlists[2].name = "Rock"
    /\ store.playlists[2].card_id = last.id

C10_AllocationStep ==
    [][(last'.op = "allocate" /\ DistinctCards(store.playlists)) =>
        /\ DistinctCards(store'.playlists)
        /\ playlists_without_card(store'.playlists)
             = playlists_without_card(RemoveAt(store.playlists, last'.val[1]))
    ]_vars

\* C10 amended: the same, for a Store whose playlist names are pairwise
\* distinct as well.
C10_AllocationStepDistinctNames ==
    [][(/\ last'.op = "allocate"
        /\ DistinctCards(store.playlists)
        /\ DistinctNames(store.playlists)) =>
        /\ DistinctCards(store'.playlists)
        /\ playlists_without_card(store'.playlists)
             = playlists_without_card(RemoveAt(store.playlists, last'.val[1]))
    ]_vars

C10_Witness ==
    /\ last.op = "allocate"
    /\ last.val = <<2>>
    /\ Len(store.playlists) = 2
    /\ DistinctNames(store.playlists)
    /\ store.playlists[1].card_id = <<0>>
    /\ store.playlists[2].card_id = <<1>>

\* C4: a loaded Store that is saved and loaded again from the same root has
\* the same playlists in the same order, with the same name, card_id,
\* allow_random and radio_url each, and no playlist has a position.
C4_SaveReloadRoundTrip ==
    (last.op = "save" /\ last.ret = "Ok") =>
        /\ musicToml # <<>>
        /\ musicToml[1].valid
        /\ Resolve(FromStr(musicToml[1])) # <<>>
        /\ LET again == Resolve(FromStr(musicToml[1]))[1]
               now == store.playlists
           IN /\ Len(again) = Len(now)
              /\ \A i \in 1..Len(now) :
                   /\ again[i].name = now[i].name
                   /\ again[i].card_id = now[i].card_id
                   /\ again[i].allow_random = now[i].allow_random
                   /\ again[i].radio_url = now[i].radio_url
                   /\ again[i].position = <<>>

C4_Witness ==
    /\ last.op = "save"
    /\ last.ret = "Ok"
    /\ Len(store.playlists) = 2
    /\ store.playlists[1].name = "Rock"
    /\ store.playlists[1].allow_random
    /\ store.playlists[1].card_id = <<MaxCardId>>
    /\ store.playlists[1].position # <<>>
    /\ store.playlists[2].radio_url # <<>>
    /\ store.playlists[2].card_id = <<0>>

\* C5: after a successful load, a playlist with a radio_url has no files,
\* whatever files/<name>/ holds, and a playlist without one has the full
\* paths of the entries of <root>/files/<name>/.
C5_FilesAfterLoad ==
    (last.op = "load" /\ last.ret = "Ok") =>
        \A i \in 1..Len(store.playlists) :
            LET p == store.playlists[i]
            IN IF p.radio_url # <<>> THEN p.files = <<>>
               ELSE /\ filesDir # <<>>
                    /\ filesDir[1][p.name] # <<>>
                    /\ Len(p.files) = Len(filesDir[1][p.name][1])
                    /\ \A k \in 1..Len(p.files) :
                         p.files[k] = <<Root, "files", p.name, filesDir[1][p.name][1][k]>>

C5_Witness ==
    /\ last.op = "load"
    /\ last.ret = "Ok"
    /\ filesDir # <<>>
    /\ \E i, j \in 1..Len(store.playlists) :
         /\ store.playlists[i].radio_url # <<>>
         /\ filesDir[1][store.playlists[i].name] = <<Tracks>>
         /\ store.playlists[j].radio_url = <<>>
         /\ Len(store.playlists[j].files) = 3

\* C6: get_files(name) never fails and never changes the Store; it returns
\* the files of the first playlist named `name`, or the empty sequence when
\* there is none.
C6_GetFilesTotal ==
    [][last'.op = "get_files" =>
        LET hits == {i \in 1..Len(store.playlists) :
                        store.playlists[i].name = last'.name[1]}
        IN /\ store' = store
           /\ disk' = disk
           /\ last'.ret = "Ok"
           /\ last'.err = <<>>
           /\ last'.val[1] = IF hits = {} THEN <<>>
                             ELSE store.playlists[Min(hits)].files
    ]_vars

C6_Witness ==
    /\ last.op = "get_files"
    /\ Len(store.playlists) = 2
    /\ store.playlists[1].name = last.name[1]
    /\ store.playlists[2].name = last.name[1]
    /\ store.playlists[1].files # store.playlists[2].files

C6_WitnessUnknown ==
    /\ last.op = "get_files"
    /\ store.playlists # <<>>
    /\ \A i \in 1..Len(store.playlists) : store.playlists[i].name # last.name[1]
    /\ last.val = << <<>> >>

\* C8: when the scope of a loaded Store ends, save() runs once on it: if it
\* succeeds, Music.toml holds the playlists with the card ids set on the
\* Store and Positions.toml lists exactly the playlists that hold a
\* position; if it fails, the one error is reported and the teardown still
\* completes.
C8_DropSaves ==
    [][(store.alive /\ ~store'.alive /\ last'.op = "drop") =>
        LET pls == store.playlists
            held == {i \in 1..Len(pls) : pls[i].position # <<>>}
        IN /\ last'.ret = "Ok"
           /\ Len(last'.err) <= 1
           /\ last'.err = <<>> =>
                /\ musicToml' # <<>>
                /\ musicToml'[1].valid
                /\ musicToml'[1].playlists # <<>>
                /\ Len(musicToml'[1].playlists[1]) = Len(pls)
                /\ \A i \in 1..Len(pls) :
                     /\ musicToml'[1].playlists[1][i].name = <<pls[i].name>>
                     /\ musicToml'[1].playlists[1][i].card_id = pls[i].card_id
                /\ positionsToml' # <<>>
                /\ Len(positionsToml'[1]) = Cardinality(held)
                /\ Range(positionsToml'[1])
                     = {<<pls[i].name, pls[i].position[1]>> : i \in held}
    ]_vars

C8_Witness ==
    /\ last.op = "drop"
    /\ last.err = <<>>
    /\ ~store.alive
    /\ musicToml # <<>>
    /\ musicToml[1].playlists # <<>>
    /\ Len(musicToml[1].playlists[1]) = 2
    /\ musicToml[1].playlists[1][1].card_id = <<MaxCardId>>
    /\ positionsToml = << << <<"Rock", <<MaxTrack, 0>>>> >> >>

\* C9: after `init PATH` on a path that holds no workspace, the root
\* directory, files/ and an empty Music.toml exist, so that loading the Store
\* from PATH succeeds with no playlists; `init` on a path that holds
\* Music.toml changes nothing.
C9_InitBootstraps ==
    (last.op = "init" /\ last.val = <<"created">>) =>
        /\ rootDir
        /\ filesDir # <<>>
        /\ musicToml # <<>>
        /\ musicToml[1].valid
        /\ FromStr(musicToml[1]) = <<>>

====
